---- MODULE Spec2Model ----
(***************************************************************************)
(* Model of the panel designer's core:                                     *)
(*   - the digital-twin store  (src/src/pages/HowItWorks.tsx, useStore)    *)
(*   - the wire router         (src/src/utils/AutoRouter.ts)               *)
(* The store is modelled as a state machine with one action per store      *)
(* operation.  The router is modelled as a state machine whose steps are   *)
(* the call of aStar / routeWire, one iteration of the search loop, and    *)
(* the return.                                                             *)
(***************************************************************************)
EXTENDS Integers, Sequences, FiniteSets, TLC

VARIABLES
    \* ---- store state (StoreState, HowItWorks.tsx:255-273) ----
    componentLibrary,    \* ComponentDefinition[]
    components,          \* ComponentInstance[]
    logicalConnections,  \* LogicalConnection[]
    wires,               \* WireInstance[]
    panel,               \* PanelConfig
    \* ---- environment of the store ----
    unrouted,            \* history: ids of the wires in the store that addWire created and
                         \* updateWireWaypoints has not written since
    pending              \* the addConnection calls that are between their two set()
                         \* calls, outermost first: for each its connection id and the
                         \* number of store calls made by subscribers since its first set()

VARIABLES
    \* ---- one call of the router (AutoRouter.ts) ----
    context,             \* routeWire's arguments: startPos, endPos, panel, components,
                         \* gridResolution (<<>> when aStar is called on a given grid)
    grid,                \* GridNode[][][]: the grid's size and the node of every cell
    startCell,           \* aStar's start, in grid coordinates
    endCell,             \* aStar's end, in grid coordinates
    openSet,             \* GridNode[]: the cells in the open set, in insertion order
    closedSet,           \* Set<string>: the cells in the closed set
    pc,                  \* position of the call: "idle", "search", "done", or
                         \* "diverged" (the call never returns)
    path,                \* the value aStar returned
    console,             \* the last message written to the console
    iterations,          \* history: iterations of aStar's main loop in this call
    returned             \* the values routeWire has returned so far, in order

storeVars == <<componentLibrary, components, logicalConnections, wires, panel,
               unrouted, pending>>

routerVars == <<context, grid, startCell, endCell, openSet, closedSet, pc, path,
                console, iterations, returned>>

VARIABLES
    \* ---- the last call a caller observed ----
    call,                \* <<>> or <<[op, ...]>>: the operation called and its arguments
    result               \* <<>> or <<value>>: what the call returned to its caller

utilVars == <<call, result>>

vars == <<storeVars, routerVars, utilVars>>

----------------------------------------------------------------------------
\* Bounds of the store model
MaxEntities == 4     \* instances + connections + wires in the store at one time
MaxComponents == 2   \* instances in the store at one time
MaxSubscriberCalls == 0  \* store calls that subscribers make while an addConnection is
                         \* between its two set() calls (the repository registers no
                         \* subscriber that calls the store)

----------------------------------------------------------------------------
\* Generic helpers on sequences (Array.prototype.filter / find / map / includes)

Filter(s, Keep(_)) == SelectSeq(s, Keep)

Range(s) == {s[i] : i \in 1..Len(s)}

\* Array.prototype.find: the first element satisfying Test, as a sequence of
\* length 0 (undefined) or 1
Find(s, Test(_)) ==
    LET idx == {i \in 1..Len(s) : Test(s[i])}
    IN  IF idx = {} THEN <<>>
        ELSE <<s[CHOOSE i \in idx : \A j \in idx : i <= j]>>

----------------------------------------------------------------------------
\* Values

Pos3(a, b, c) == [x |-> a, y |-> b, z |-> c]

\* Two catalogue entries (ComponentDefinition).  relativePosition is
\* normalized to the footprint; the model uses the corners 0 and 1.
\* addComponent is called with DefA; DefB and DefBlank only appear in libraries.
DefA == [id |-> "defA", type |-> "MCB",
         dimensions |-> [width |-> 18, height |-> 85],
         logicalPins |-> << [id |-> "defA_L1",  relativePosition |-> [x |-> 0, y |-> 1]],
                            [id |-> "defA_OUT", relativePosition |-> [x |-> 1, y |-> 1]] >>]

DefB == [id |-> "defB", type |-> "RELAY",
         dimensions |-> [width |-> 36, height |-> 90],
         logicalPins |-> << [id |-> "defB_A1", relativePosition |-> [x |-> 1, y |-> 0]] >>]

\* A catalogue entry whose id is the empty string, with the pins of DefA
DefBlank == [DefA EXCEPT !.id = ""]

Definitions == {DefA}

\* Arguments of loadComponentLibrary (any ComponentDefinition[], line 559)
Libraries == { <<DefA, DefB>>, <<DefBlank>> }

\* Pin pairs handed to addConnection: two pins of the catalogue, and a pin
\* with one that belongs to no definition
PinPairs == { <<"defA_L1", "defA_OUT">>, <<"defA_L1", "ghost_X">> }

SchematicPositions == { [x |-> 100, y |-> 100] }

\* (position, dinRailSlot) arguments of updateComponentPhysicalPosition: a
\* position on dinrail-1, without and with its slot.  <<>> stands for an
\* undefined dinRailSlot
MoveArgs == { <<Pos3(-315, 200, -50), <<>> >>, <<Pos3(-315, 200, -50), <<2>> >> }

\* Waypoint lists handed to updateWireWaypoints (segment lengths are exact
\* square roots)
Wp(a, b, c) == [position |-> Pos3(a, b, c), isControlPoint |-> FALSE]

WaypointLists == { << Wp(0, 0, 0) >>,
                   << Wp(0, 0, 0), Wp(30, 0, 0), Wp(30, 40, 0) >> }

InstanceId(n) == <<"inst", n>>
ConnectionId(n) == <<"conn", n>>
WireId(n) == <<"wire", n>>

\* Initial panel (HowItWorks.tsx:323-351)
InitialPanel ==
    [id |-> "panel-1", width |-> 800, height |-> 600, depth |-> 200,
     dinRails |-> << [id |-> "dinrail-1", position |-> Pos3(-350, 200, -50),
                      length |-> 700, orientation |-> "horizontal", maxModules |-> 40],
                     [id |-> "dinrail-2", position |-> Pos3(-350, 100, -50),
                      length |-> 700, orientation |-> "horizontal", maxModules |-> 40],
                     [id |-> "dinrail-3", position |-> Pos3(-350, 0, -50),
                      length |-> 700, orientation |-> "horizontal", maxModules |-> 40] >>]

----------------------------------------------------------------------------
\* Store helpers

\* getDefinition (HowItWorks.tsx:604-606) on a given library
GetDefinition(library, definitionId) ==
    Find(library, LAMBDA d : d.id = definitionId)

\* getWireColor (HowItWorks.tsx:622-633)
GetWireColor(wireType) ==
    CASE wireType = "POWER"  -> "#FF0000"
      [] wireType = "SIGNAL" -> "#0000FF"
      [] wireType = "GROUND" -> "#00FF00"
      [] OTHER               -> "#888888"

\* Math.sqrt on the perfect squares the model uses
Sqrt(n) == CHOOSE r \in 0..n : r * r = n

----------------------------------------------------------------------------
\* Store operations (HowItWorks.tsx:359-594).  Each operator below computes
\* what one handler writes; the actions further down apply them.

\* addComponent, lines 364-372: one physical pin per logical pin
NewPhysicalPins(definition) ==
    [i \in 1..Len(definition.logicalPins) |->
        LET logicalPin == definition.logicalPins[i]
        IN  [logicalPinId |-> logicalPin.id,
             position |-> Pos3(logicalPin.relativePosition.x * definition.dimensions.width,
                               logicalPin.relativePosition.y * definition.dimensions.height,
                               0),
             connectionPoint |-> Pos3(0, 0, 0)]]

\* addComponent, lines 374-382
NewComponent(instanceId, definition, schematicPosition, comps) ==
    [instanceId |-> instanceId,
     definitionId |-> definition.id,
     label |-> <<definition.type,
                 Len(Filter(comps, LAMBDA c : c.definitionId = definition.id)) + 1>>,
     schematicPosition |-> schematicPosition,
     physicalPosition |-> Pos3(0, 0, 0),
     isPhysicallyPlaced |-> FALSE,
     physicalPins |-> NewPhysicalPins(definition),
     dinRailSlot |-> <<>>]

\* removeComponent, lines 392-409: the three lists after the call
RemoveComponentResult(instanceId, library, comps, conns, ws) ==
    LET comps1 == Filter(comps, LAMBDA c : c.instanceId /= instanceId)
        \* line 397 looks the instance up in the list that line 393 has
        \* already filtered
        found == Find(comps1, LAMBDA c : c.instanceId = instanceId)
        componentDef == GetDefinition(library,
                                      IF found = <<>> THEN "" ELSE found[1].definitionId)
        pinIds == IF componentDef = <<>> THEN {}
                  ELSE {componentDef[1].logicalPins[i].id :
                            i \in 1..Len(componentDef[1].logicalPins)}
        conns1 == IF componentDef = <<>> THEN conns
                  ELSE Filter(conns, LAMBDA conn : conn.fromPinId \notin pinIds
                                                   /\ conn.toPinId \notin pinIds)
        connectionIds == {conns1[i].id : i \in 1..Len(conns1)}
        ws1 == Filter(ws, LAMBDA w : w.logicalConnectionId \in connectionIds)
    IN  [components |-> comps1, logicalConnections |-> conns1, wires |-> ws1]

\* updateComponentPhysicalPosition, lines 434-440
RecomputedPins(pins, position) ==
    [i \in 1..Len(pins) |->
        [pins[i] EXCEPT !.connectionPoint =
            Pos3(position.x + pins[i].position.x,
                 position.y + pins[i].position.y,
                 position.z + pins[i].position.z)]]

\* Mutant of MovedComponent: the move also marks the instance as placed
MovedAndPlacedComponent(component, position, dinRailSlot, library) ==
    [component EXCEPT !.physicalPosition = position,
                      !.dinRailSlot = IF dinRailSlot /= <<>> THEN dinRailSlot ELSE @,
                      !.isPhysicallyPlaced = TRUE,
                      !.physicalPins = IF GetDefinition(library, component.definitionId) /= <<>>
                                       THEN RecomputedPins(@, position) ELSE @]

\* updateComponentPhysicalPosition, lines 425-442, on the instance found
MovedComponent(component, position, dinRailSlot, library) ==
    LET c1 == [component EXCEPT !.physicalPosition = position]
        c2 == IF dinRailSlot /= <<>> THEN [c1 EXCEPT !.dinRailSlot = dinRailSlot] ELSE c1
        definition == GetDefinition(library, component.definitionId)
    IN  IF definition /= <<>>
        THEN [c2 EXCEPT !.physicalPins = RecomputedPins(c2.physicalPins, position)]
        ELSE c2

\* The list with the first instance named instanceId replaced by Change(it)
\* (state.components.find(...) followed by writes on the draft)
WithComponent(comps, instanceId, Change(_)) ==
    LET idx == {i \in 1..Len(comps) : comps[i].instanceId = instanceId}
    IN  IF idx = {} THEN comps
        ELSE LET k == CHOOSE i \in idx : \A j \in idx : i <= j
             IN  [comps EXCEPT ![k] = Change(comps[k])]

\* addConnection, lines 463-468
NewConnection(connectionId, fromPinId, toPinId) ==
    [id |-> connectionId, fromPinId |-> fromPinId, toPinId |-> toPinId,
     wireType |-> "SIGNAL"]

\* Mutant of NewWire: the wire is born with a waypoint
NewWirePrefilled(wireId, connection) ==
    [id |-> wireId,
     logicalConnectionId |-> connection.id,
     waypoints |-> << Wp(0, 0, 0) >>,
     wireType |-> connection.wireType,
     color |-> GetWireColor(connection.wireType),
     thickness |-> 2,
     routingMethod |-> "manhattan",
     length |-> <<>>]

\* addWire, lines 499-507.  length is optional: <<>> stands for undefined
NewWire(wireId, connection) ==
    [id |-> wireId,
     logicalConnectionId |-> connection.id,
     waypoints |-> <<>>,
     wireType |-> connection.wireType,
     color |-> GetWireColor(connection.wireType),
     thickness |-> 2,
     routingMethod |-> "manhattan",
     length |-> <<>>]

\* addWire, lines 493-510: the wire list after the call
AddWireResult(wireId, logicalConnectionId, conns, ws) ==
    LET connection == Find(conns, LAMBDA c : c.id = logicalConnectionId)
    IN  IF connection = <<>> THEN ws
        ELSE Append(ws, NewWire(wireId, connection[1]))

\* updateWireWaypoints, lines 528-537
RECURSIVE PolylineLength(_, _)
PolylineLength(waypoints, i) ==
    IF i > Len(waypoints) THEN 0
    ELSE LET prev == waypoints[i - 1].position
             curr == waypoints[i].position
         IN  Sqrt((curr.x - prev.x) * (curr.x - prev.x)
                  + (curr.y - prev.y) * (curr.y - prev.y)
                  + (curr.z - prev.z) * (curr.z - prev.z))
             + PolylineLength(waypoints, i + 1)

\* updateWireWaypoints, lines 525-538, on the wire found
RewrittenWire(wire, waypoints) ==
    [wire EXCEPT !.waypoints = waypoints,
                 !.length = <<PolylineLength(waypoints, 2)>>]

WithWire(ws, wireId, Change(_)) ==
    LET idx == {i \in 1..Len(ws) : ws[i].id = wireId}
    IN  IF idx = {} THEN ws
        ELSE LET k == CHOOSE i \in idx : \A j \in idx : i <= j
             IN  [ws EXCEPT ![k] = Change(ws[k])]

\* Mutant of ExportedProject: the wires are left out of the export
ExportedWithoutWires ==
    [panel |-> panel,
     componentLibrary |-> componentLibrary,
     components |-> components,
     logicalConnections |-> logicalConnections,
     wires |-> <<>>]

\* exportProject, lines 579-594 (the metadata fields are left out)
ExportedProject ==
    [panel |-> panel,
     componentLibrary |-> componentLibrary,
     components |-> components,
     logicalConnections |-> logicalConnections,
     wires |-> wires]

\* A project as an earlier session exported it: one placed instance of DefA
\* whose two pins are connected by a routed wire
SavedProject ==
    LET library == <<DefA, DefB>>
        position == Pos3(40, 0, 10)
        instance == [MovedComponent(NewComponent(InstanceId(0), DefA,
                                                 [x |-> 100, y |-> 100], <<>>),
                                    position, <<>>, library)
                        EXCEPT !.isPhysicallyPlaced = TRUE]
        connection == NewConnection(ConnectionId(0), "defA_L1", "defA_OUT")
        wire == RewrittenWire(NewWire(WireId(0), connection),
                              << Wp(0, 0, 0), Wp(30, 0, 0), Wp(30, 40, 0) >>)
    IN  [panel |-> InitialPanel,
         componentLibrary |-> library,
         components |-> <<instance>>,
         logicalConnections |-> <<connection>>,
         wires |-> <<wire>>]

\* A project whose wire names a connection that the project does not hold
\* (loadProject takes any Project, lines 567-577)
OrphanWireProject ==
    [SavedProject EXCEPT !.components = <<>>, !.logicalConnections = <<>>]

\* Arguments of loadProject
Projects == {SavedProject, OrphanWireProject}

----------------------------------------------------------------------------
\* Initial state of the store (HowItWorks.tsx:317-353)

StoreInit ==
    /\ componentLibrary = <<>>
    /\ components = <<>>
    /\ logicalConnections = <<>>
    /\ wires = <<>>
    /\ panel = InitialPanel
    /\ unrouted = {}
    /\ pending = <<>>

----------------------------------------------------------------------------
\* Store actions
\*
\* Ids are `${prefix}_${Date.now()}_${Math.random()...}` (lines 360, 460,
\* 491): an id that no entity of the store carries.  The model draws the
\* smallest number that no entity of the same kind in the store uses.

StoreSize == Len(components) + Len(logicalConnections) + Len(wires)

\* The store calls that subscribers have made inside the addConnection calls
\* under way
RECURSIVE SubscriberCalls(_)
SubscriberCalls(calls) ==
    IF calls = <<>> THEN 0 ELSE Head(calls).calls + SubscriberCalls(Tail(calls))

\* A store call can start: either no addConnection is under way, or a
\* subscriber, notified of its first set() (lines 462-471), makes the call
\* before line 474 runs
MayCall == pending = <<>> \/ SubscriberCalls(pending) < MaxSubscriberCalls

\* The calls under way once a store call has been made: it was made by a
\* subscriber inside the innermost of them, if there is one
Noted(calls) ==
    IF calls = <<>> THEN calls
    ELSE [calls EXCEPT ![Len(calls)].calls = @ + 1]

\* The connection ids of the calls under way
PendingIds(calls) == {calls[i].connectionId : i \in 1..Len(calls)}

\* ids: the ids in use, as <<prefix, n>>
FreshNumber(ids) ==
    LET free == (1..(Cardinality(ids) + 1)) \ {id[2] : id \in ids}
    IN  CHOOSE n \in free : \A m \in free : n <= m

InstanceIdsOf(comps) == {comps[i].instanceId : i \in 1..Len(comps)}
ConnectionIdsOf(conns) == {conns[i].id : i \in 1..Len(conns)}
WireIdsOf(ws) == {ws[i].id : i \in 1..Len(ws)}

addComponent(definition, schematicPosition) ==
    /\ StoreSize < MaxEntities
    /\ Len(components) < MaxComponents
    /\ LET instanceId == InstanceId(FreshNumber(InstanceIdsOf(components)))
       IN  /\ components' = Append(components,
                                   NewComponent(instanceId, definition,
                                                schematicPosition, components))
    /\ UNCHANGED <<componentLibrary, logicalConnections, wires, panel, unrouted>>
    /\ pending' = Noted(pending)
    /\ UNCHANGED routerVars

removeComponent(instanceId) ==
    /\ LET r == RemoveComponentResult(instanceId, componentLibrary, components,
                                      logicalConnections, wires)
       IN  /\ components' = r.components
           /\ logicalConnections' = r.logicalConnections
           /\ wires' = r.wires
           /\ unrouted' = unrouted \cap WireIdsOf(r.wires)
    /\ UNCHANGED <<componentLibrary, panel>>
    /\ pending' = Noted(pending)
    /\ UNCHANGED routerVars

updateComponentSchematicPosition(instanceId, position) ==
    /\ components' = WithComponent(components, instanceId,
                                   LAMBDA c : [c EXCEPT !.schematicPosition = position])
    /\ UNCHANGED <<componentLibrary, logicalConnections, wires, panel, unrouted>>
    /\ pending' = Noted(pending)
    /\ UNCHANGED routerVars

updateComponentPhysicalPosition(instanceId, position, dinRailSlot) ==
    /\ components' = WithComponent(components, instanceId,
                        LAMBDA c : MovedComponent(c, position, dinRailSlot, componentLibrary))
    /\ UNCHANGED <<componentLibrary, logicalConnections, wires, panel, unrouted>>
    /\ pending' = Noted(pending)
    /\ UNCHANGED routerVars

setComponentPhysicallyPlaced(instanceId, placed) ==
    /\ components' = WithComponent(components, instanceId,
                                   LAMBDA c : [c EXCEPT !.isPhysicallyPlaced = placed])
    /\ UNCHANGED <<componentLibrary, logicalConnections, wires, panel, unrouted>>
    /\ pending' = Noted(pending)
    /\ UNCHANGED routerVars

\* addConnection (lines 459-477) writes the store twice.  Lines 460-471: it
\* draws the connection id and its set() commits the connection; the store's
\* subscribers are notified of a store that holds the connection and no wire
\* for it, and the store calls they make run before line 474.  The id is one
\* that no connection of the store and no call under way has
addConnectionCommit(fromPinId, toPinId) ==
    /\ MayCall
    /\ StoreSize + 2 <= MaxEntities
    /\ LET connectionId == ConnectionId(FreshNumber(ConnectionIdsOf(logicalConnections)
                                                        \cup PendingIds(pending)))
       IN  /\ logicalConnections' = Append(logicalConnections,
                                           NewConnection(connectionId, fromPinId, toPinId))
           /\ pending' = Append(Noted(pending),
                                [connectionId |-> connectionId, calls |-> 0])
    /\ UNCHANGED <<componentLibrary, components, wires, panel, unrouted>>
    /\ UNCHANGED routerVars

\* addConnection, lines 473-476: get().addWire(connectionId) draws the wire
\* id and commits the wire in a second set(), and the call returns.  The
\* call that goes on is the innermost one under way
addConnectionAddWire ==
    /\ pending /= <<>>
    /\ LET wireId == WireId(FreshNumber(WireIdsOf(wires)))
       IN  /\ wires' = AddWireResult(wireId, pending[Len(pending)].connectionId,
                                     logicalConnections, wires)
           /\ unrouted' = (unrouted \cup {wireId}) \cap WireIdsOf(wires')
    /\ pending' = SubSeq(pending, 1, Len(pending) - 1)
    /\ UNCHANGED <<componentLibrary, components, logicalConnections, panel>>
    /\ UNCHANGED routerVars

removeConnection(connectionId) ==
    /\ logicalConnections' = Filter(logicalConnections, LAMBDA c : c.id /= connectionId)
    /\ wires' = Filter(wires, LAMBDA w : w.logicalConnectionId /= connectionId)
    /\ unrouted' = unrouted \cap WireIdsOf(wires')
    /\ UNCHANGED <<componentLibrary, components, panel>>
    /\ pending' = Noted(pending)
    /\ UNCHANGED routerVars

addWire(logicalConnectionId) ==
    /\ StoreSize < MaxEntities
    /\ LET wireId == WireId(FreshNumber(WireIdsOf(wires)))
       IN  /\ wires' = AddWireResult(wireId, logicalConnectionId, logicalConnections, wires)
           /\ unrouted' = (unrouted \cup {wireId}) \cap WireIdsOf(wires')
    /\ UNCHANGED <<componentLibrary, components, logicalConnections, panel>>
    /\ pending' = Noted(pending)
    /\ UNCHANGED routerVars

removeWire(wireId) ==
    /\ wires' = Filter(wires, LAMBDA w : w.id /= wireId)
    /\ unrouted' = unrouted \cap WireIdsOf(wires')
    /\ UNCHANGED <<componentLibrary, components, logicalConnections, panel>>
    /\ pending' = Noted(pending)
    /\ UNCHANGED routerVars

updateWireWaypoints(wireId, waypoints) ==
    /\ wires' = WithWire(wires, wireId, LAMBDA w : RewrittenWire(w, waypoints))
    /\ unrouted' = unrouted \ {wireId}
    /\ UNCHANGED <<componentLibrary, components, logicalConnections, panel>>
    /\ pending' = Noted(pending)
    /\ UNCHANGED routerVars

loadComponentLibrary(library) ==
    /\ componentLibrary' = library
    /\ UNCHANGED <<components, logicalConnections, wires, panel, unrouted>>
    /\ pending' = Noted(pending)
    /\ UNCHANGED routerVars

\* Mutant of LoadedState: the project's components, connections and wires
\* are added to those of the store
MergedState(project) ==
    [componentLibrary |-> project.componentLibrary,
     components |-> components \o project.components,
     logicalConnections |-> logicalConnections \o project.logicalConnections,
     wires |-> wires \o project.wires,
     panel |-> project.panel]

\* loadProject, lines 568-576: the fields set() writes (projectId and
\* projectName are left out)
LoadedState(project) ==
    [componentLibrary |-> project.componentLibrary,
     components |-> project.components,
     logicalConnections |-> project.logicalConnections,
     wires |-> project.wires,
     panel |-> project.panel]

\* loadProject (lines 567-577) with a project that exportProject returned
loadProject(project) ==
    /\ LET loaded == LoadedState(project)
       IN  /\ componentLibrary' = loaded.componentLibrary
           /\ components' = loaded.components
           /\ logicalConnections' = loaded.logicalConnections
           /\ wires' = loaded.wires
           /\ panel' = loaded.panel
    /\ unrouted' = unrouted \cap WireIdsOf(wires')
    /\ pending' = Noted(pending)
    /\ UNCHANGED routerVars

\* Ids handed to the store's operations: every id in use, and one id that
\* is in use nowhere
InstanceIdArgs ==
    InstanceIdsOf(components) \cup {InstanceId(FreshNumber(InstanceIdsOf(components)))}

ConnectionIdArgs ==
    ConnectionIdsOf(logicalConnections)
        \cup {ConnectionId(FreshNumber(ConnectionIdsOf(logicalConnections)))}

WireIdArgs == WireIdsOf(wires) \cup {WireId(FreshNumber(WireIdsOf(wires)))}

\* One step per set() of the store
Next ==
    \/ \E pp \in PinPairs : addConnectionCommit(pp[1], pp[2]) /\ UNCHANGED utilVars
    \/ addConnectionAddWire /\ UNCHANGED utilVars
    \/ /\ MayCall
       /\ UNCHANGED utilVars
       /\ \/ \E d \in Definitions, p \in SchematicPositions : addComponent(d, p)
          \/ \E id \in InstanceIdArgs : removeComponent(id)
          \/ \E id \in InstanceIdArgs, p \in SchematicPositions :
                  updateComponentSchematicPosition(id, p)
          \/ \E id \in InstanceIdArgs, m \in MoveArgs :
                  updateComponentPhysicalPosition(id, m[1], m[2])
          \/ \E id \in InstanceIdArgs, b \in BOOLEAN :
                  setComponentPhysicallyPlaced(id, b)
          \/ \E id \in ConnectionIdArgs : removeConnection(id)
          \/ \E id \in ConnectionIdArgs : addWire(id)
          \/ \E id \in WireIdArgs : removeWire(id)
          \/ \E id \in WireIdArgs, w \in WaypointLists : updateWireWaypoints(id, w)
          \/ \E l \in Libraries : loadComponentLibrary(l)
          \/ \E project \in Projects : loadProject(project)


----------------------------------------------------------------------------
\* The router (AutoRouter.ts)

\* Bounds of the router model
GridWidth == 3       \* cells along x of the grids handed to aStar
GridHeight == 2      \* cells along y
GridDepth == 2       \* cells along z
MaxObstacles == 3    \* obstacle cells of those grids
MaxRouteCalls == 2   \* consecutive calls of routeWire with the same arguments

\* Infinity, the g and f of a node no search has reached (lines 92, 94)
Inf == 1000000

\* Math.floor(a / b) and Math.ceil(a / b) for b /= 0
Floor(a, b) == IF b > 0 THEN a \div b ELSE (-a) \div (-b)
Ceil(a, b) == -Floor(-a, b)

Min(a, b) == IF a <= b THEN a ELSE b
Max(a, b) == IF a >= b THEN a ELSE b
Abs(a) == IF a >= 0 THEN a ELSE -a

\* Half of a panel dimension (panel.width / 2, panel.depth / 2); the panels
\* of the model have even dimensions
Half(a) == a \div 2

CellsOf(width, height, depth) == (0..(width - 1)) \X (0..(height - 1)) \X (0..(depth - 1))

\* The node createGrid puts in every cell (lines 88-97); parent <<>> is null
FreshNode == [g |-> Inf, h |-> 0, f |-> Inf, parent |-> <<>>, isObstacle |-> FALSE]

\* A grid of fresh nodes with the given obstacle cells
GridOf(width, height, depth, obstacles) ==
    [width |-> width, height |-> height, depth |-> depth,
     node |-> [c \in CellsOf(width, height, depth) |->
                  [FreshNode EXCEPT !.isObstacle = (c \in obstacles)]]]

\* createGrid, lines 103-123: the cells one component marks
ComponentCells(comp, pnl, resolution, width, height, depth) ==
    IF ~comp.isPhysicallyPlaced THEN {}
    ELSE LET minX == Floor(comp.physicalPosition.x - Half(pnl.width), resolution)
             maxX == Ceil(comp.physicalPosition.x + Half(pnl.width), resolution)
             minY == Floor(comp.physicalPosition.y, resolution)
             maxY == Ceil(comp.physicalPosition.y + 100, resolution)
             minZ == Floor(comp.physicalPosition.z + Half(pnl.depth), resolution)
             maxZ == Ceil(comp.physicalPosition.z + Half(pnl.depth) + 50, resolution)
         IN  (Max(0, minX)..(Min(width, maxX) - 1))
                 \X (Max(0, minY)..(Min(height, maxY) - 1))
                 \X (Max(0, minZ)..(Min(depth, maxZ) - 1))

\* createGrid, lines 70-126
CreateGrid(pnl, comps, resolution) ==
    LET width == Ceil(pnl.width, resolution)
        height == Ceil(pnl.height, resolution)
        depth == Ceil(pnl.depth, resolution)
    IN  GridOf(width, height, depth,
               UNION {ComponentCells(comps[i], pnl, resolution, width, height, depth) :
                      i \in 1..Len(comps)})

\* worldToGrid, lines 267-277
WorldToGrid(pos, resolution, pnl) ==
    << Floor(pos.x + Half(pnl.width), resolution),
       Floor(pos.y, resolution),
       Floor(pos.z + Half(pnl.depth), resolution) >>

\* heuristic, lines 211-213
Heuristic(a, b) == Abs(a[1] - b[1]) + Abs(a[2] - b[2]) + Abs(a[3] - b[3])

\* getManhattanNeighbors, lines 220-227
Directions == << <<1, 0, 0>>, <<-1, 0, 0>>, <<0, 1, 0>>, <<0, -1, 0>>,
                 <<0, 0, 1>>, <<0, 0, -1>> >>

\* getManhattanNeighbors, lines 218-247: the in-bounds neighbours, in the
\* order of Directions
ManhattanNeighbors(g, c) ==
    LET cand == [i \in 1..Len(Directions) |->
                    <<c[1] + Directions[i][1], c[2] + Directions[i][2],
                      c[3] + Directions[i][3]>>]
    IN  SelectSeq(cand, LAMBDA n : /\ n[1] >= 0 /\ n[1] < g.width
                                   /\ n[2] >= 0 /\ n[2] < g.height
                                   /\ n[3] >= 0 /\ n[3] < g.depth)

\* What stands for the path of a reconstructPath that does not return: one
\* cell that no grid has
Unending == << <<-1, -1, -1>> >>

\* reconstructPath, lines 252-262: the cells from the first ancestor down
\* to c.  A parent chain longer than the grid has cells is a cycle, on which
\* the loop does not end: the result is then Unending.
RECURSIVE ReconstructFrom(_, _, _, _)
ReconstructFrom(nodes, c, acc, fuel) ==
    IF fuel = 0 THEN Unending
    ELSE IF nodes[c].parent = <<>> THEN <<c>> \o acc
    ELSE ReconstructFrom(nodes, nodes[c].parent, <<c>> \o acc, fuel - 1)

ReconstructPath(g, c) ==
    ReconstructFrom(g.node, c, <<>>, g.width * g.height * g.depth + 1)

\* Mutant of LowestIndex: the node inserted last is expanded
LastIndex(nodes, open) == Len(open)

\* Mutant of LowestIndex: the index of the last node with the lowest f
LatestLowestIndex(nodes, open) ==
    CHOOSE i \in 1..Len(open) :
        /\ \A j \in 1..Len(open) : nodes[open[i]].f <= nodes[open[j]].f
        /\ \A j \in (i + 1)..Len(open) : nodes[open[j]].f > nodes[open[i]].f

\* aStar, lines 155-160: the index of the first node with the lowest f
LowestIndex(nodes, open) ==
    CHOOSE i \in 1..Len(open) :
        /\ \A j \in 1..Len(open) : nodes[open[i]].f <= nodes[open[j]].f
        /\ \A j \in 1..(i - 1) : nodes[open[j]].f > nodes[open[i]].f

\* aStar, lines 176-200: the loop over the neighbours of current.
\* st = [node, open] is the grid's nodes and the open set so far.
RECURSIVE RelaxNeighbors(_, _, _, _, _, _)
RelaxNeighbors(nbrs, i, current, goal, closed, st) ==
    IF i > Len(nbrs) THEN st
    ELSE LET neighbor == nbrs[i]
             tentativeG == st.node[current].g + 1
             neighborInOpen == \E k \in 1..Len(st.open) : st.open[k] = neighbor
         IN  IF neighbor \in closed \/ st.node[neighbor].isObstacle
             THEN RelaxNeighbors(nbrs, i + 1, current, goal, closed, st)
             ELSE IF neighborInOpen /\ tentativeG >= st.node[neighbor].g
             THEN RelaxNeighbors(nbrs, i + 1, current, goal, closed, st)
             ELSE RelaxNeighbors(nbrs, i + 1, current, goal, closed,
                     [node |-> [st.node EXCEPT ![neighbor] =
                                   [@ EXCEPT !.parent = current,
                                             !.g = tentativeG,
                                             !.h = Heuristic(neighbor, goal),
                                             !.f = tentativeG + Heuristic(neighbor, goal)]],
                      open |-> IF neighborInOpen THEN st.open
                               ELSE Append(st.open, neighbor)])

\* Mutant of Splice: the element stays in the sequence
SpliceNothing(s, i) == s

\* The sequence without its i-th element (Array.prototype.splice(i, 1))
Splice(s, i) == [k \in 1..(Len(s) - 1) |-> IF k < i THEN s[k] ELSE s[k + 1]]

\* pathToWaypoints, lines 282-291
PathToWaypoints(cells, resolution, pnl) ==
    [i \in 1..Len(cells) |->
        Wp(cells[i][1] * resolution - Half(pnl.width),
           cells[i][2] * resolution,
           cells[i][3] * resolution - Half(pnl.depth))]

\* Mutant of OptimizePath: every waypoint is kept
OptimizePathKeepAll(waypoints) == waypoints

\* Mutant of OptimizePath: only the two ends of the path are kept
OptimizePathEnds(waypoints) ==
    IF Len(waypoints) <= 2 THEN waypoints
    ELSE <<waypoints[1], waypoints[Len(waypoints)]>>

\* optimizePath, lines 297-329
OptimizePath(waypoints) ==
    IF Len(waypoints) <= 2 THEN waypoints
    ELSE LET turns(i) ==
                 LET prev == waypoints[i - 1].position
                     curr == waypoints[i].position
                     next == waypoints[i + 1].position
                 IN  \/ curr.x - prev.x /= next.x - curr.x
                     \/ curr.y - prev.y /= next.y - curr.y
                     \/ curr.z - prev.z /= next.z - curr.z
             kept == SelectSeq([i \in 1..(Len(waypoints) - 2) |-> i + 1], turns)
         IN  <<waypoints[1]>> \o [k \in 1..Len(kept) |-> waypoints[kept[k]]]
                 \o <<waypoints[Len(waypoints)]>>

\* Mutant of NewClosedSet: the closed set of the previous search is kept
KeptClosedSet == closedSet

\* aStar, line 138: const closedSet = new Set<string>()
NewClosedSet == {}

\* aStar, lines 137-151, on grid g: what the call sets up before the loop
AStarEntry(g, start, end) ==
    IF start \notin DOMAIN g.node \/ end \notin DOMAIN g.node
    THEN /\ grid' = g
         /\ openSet' = <<>>
         /\ closedSet' = NewClosedSet
         /\ console' = "error: Start or end node not found in grid"
         /\ path' = <<>>
         /\ pc' = "done"
    ELSE /\ grid' = [g EXCEPT !.node[start] =
                        [@ EXCEPT !.g = 0,
                                  !.h = Heuristic(start, end),
                                  !.f = Heuristic(start, end)]]
         /\ openSet' = <<start>>
         /\ closedSet' = NewClosedSet
         /\ console' = console
         /\ path' = path
         /\ pc' = "search"

\* aStar called on the grid at hand
aStarCall ==
    /\ pc = "idle"
    /\ context = <<>>
    /\ AStarEntry(grid, startCell, endCell)
    /\ iterations' = 0
    /\ UNCHANGED <<context, startCell, endCell, returned>>
    /\ UNCHANGED <<storeVars, utilVars>>

\* aStar, lines 153-205: one iteration of the main loop, or the exit from it
aStarIterate ==
    /\ pc = "search"
    /\ IF openSet = <<>>
       THEN /\ console' = "warn: No path found"
            /\ path' = <<>>
            /\ pc' = "done"
            /\ UNCHANGED <<grid, openSet, closedSet, iterations>>
       ELSE LET currentIndex == LowestIndex(grid.node, openSet)
                current == openSet[currentIndex]
            IN  /\ iterations' = iterations + 1
                /\ IF current = endCell
                   THEN /\ IF ReconstructPath(grid, current) = Unending
                           THEN pc' = "diverged" /\ path' = path
                           ELSE pc' = "done" /\ path' = ReconstructPath(grid, current)
                        /\ UNCHANGED <<grid, openSet, closedSet, console>>
                   ELSE LET closed1 == closedSet \cup {current}
                            st == RelaxNeighbors(ManhattanNeighbors(grid, current), 1,
                                                 current, endCell, closed1,
                                                 [node |-> grid.node,
                                                  open |-> Splice(openSet, currentIndex)])
                        IN  /\ grid' = [grid EXCEPT !.node = st.node]
                            /\ openSet' = st.open
                            /\ closedSet' = closed1
                            /\ UNCHANGED <<path, console, pc>>
    /\ UNCHANGED <<context, startCell, endCell, returned>>
    /\ UNCHANGED <<storeVars, utilVars>>

\* aStar, lines 153-205: the main loop run to its end on the nodes, the open
\* set and the closed set at hand; the path returned, or Unending
RECURSIVE SearchFrom(_, _, _, _, _)
SearchFrom(g, nodes, open, closed, end) ==
    IF open = <<>> THEN <<>>
    ELSE LET currentIndex == LowestIndex(nodes, open)
             current == open[currentIndex]
         IN  IF current = end
             THEN ReconstructFrom(nodes, current, <<>>, g.width * g.height * g.depth + 1)
             ELSE LET st == RelaxNeighbors(ManhattanNeighbors(g, current), 1,
                                           current, end, closed \cup {current},
                                           [node |-> nodes,
                                            open |-> Splice(open, currentIndex)])
                  IN  SearchFrom(g, st.node, st.open, closed \cup {current}, end)

\* aStar, lines 131-206, as a function of its arguments: the path returned,
\* or Unending
AStarPath(g, start, end) ==
    IF start \notin DOMAIN g.node \/ end \notin DOMAIN g.node THEN <<>>
    ELSE SearchFrom(g,
                    [g.node EXCEPT ![start] = [@ EXCEPT !.g = 0,
                                                        !.h = Heuristic(start, end),
                                                        !.f = Heuristic(start, end)]],
                    <<start>>, NewClosedSet, end)

\* aStar called again on the grid object that the search before it has used
aStarAgain ==
    /\ pc = "done"
    /\ context = <<>>
    /\ call = <<>>
    /\ \E start \in DOMAIN grid.node, end \in DOMAIN grid.node :
          /\ startCell' = start
          /\ endCell' = end
          /\ AStarEntry(grid, start, end)
    /\ iterations' = 0
    /\ call' = <<[op |-> "aStar", earlier |-> <<startCell, endCell>>]>>
    /\ UNCHANGED <<context, returned, result, storeVars>>

\* createGrid, lines 76-100, with resolution 0 and a positive panel width:
\* width = Math.ceil(panel.width / 0) is Infinity and the loop over x
\* (x < width) allocates cells without end; createGrid never returns
CreateGridDiverges(pnl, resolution) == resolution = 0 /\ pnl.width > 0

\* routeWire, lines 45-55: the grid is built, the positions are converted
\* and aStar is entered
routeWireCall ==
    /\ pc = "idle"
    /\ context /= <<>>
    /\ Len(returned) < MaxRouteCalls
    /\ LET c == context[1]
           start == WorldToGrid(c.startPos, c.gridResolution, c.panel)
           end == WorldToGrid(c.endPos, c.gridResolution, c.panel)
       IN  IF CreateGridDiverges(c.panel, c.gridResolution)
           THEN /\ pc' = "diverged"
                /\ UNCHANGED <<grid, startCell, endCell, openSet, closedSet, path,
                               console>>
           ELSE /\ startCell' = start
                /\ endCell' = end
                /\ AStarEntry(CreateGrid(c.panel, c.components, c.gridResolution),
                              start, end)
    /\ iterations' = 0
    /\ UNCHANGED <<context, returned>>
    /\ UNCHANGED <<storeVars, utilVars>>

\* routeWire, lines 57-63: aStar's path is converted, reduced and returned
routeWireReturn ==
    /\ pc = "done"
    /\ context /= <<>>
    /\ returned' = Append(returned,
                          OptimizePath(PathToWaypoints(path, context[1].gridResolution,
                                                       context[1].panel)))
    /\ pc' = "idle"
    /\ UNCHANGED <<context, grid, startCell, endCell, openSet, closedSet, path,
                   console, iterations>>
    /\ UNCHANGED <<storeVars, utilVars>>

----------------------------------------------------------------------------
\* Inputs of the router model

\* The grids handed to aStar: every placement of at most MaxObstacles
\* obstacle cells
RECURSIVE CellSetsUpTo(_, _)
CellSetsUpTo(cells, k) ==
    IF k = 0 THEN {{}}
    ELSE LET smaller == CellSetsUpTo(cells, k - 1)
         IN  smaller \cup {o \cup {c} : o \in smaller, c \in cells}

AStarGrids ==
    {GridOf(GridWidth, GridHeight, GridDepth, obs) :
        obs \in CellSetsUpTo(CellsOf(GridWidth, GridHeight, GridDepth), MaxObstacles)}

\* The grids searched twice: one layer of cells with at most one obstacle
RerunGrids ==
    {GridOf(GridWidth, GridHeight, 1, obs) :
        obs \in CellSetsUpTo(CellsOf(GridWidth, GridHeight, 1), 1)}

\* routeWire's arguments: a 200 x 150 x 100 mm panel routed at 50 mm, which
\* makes a grid of 4 x 3 x 2 cells
RoutePanel == [InitialPanel EXCEPT !.width = 200, !.height = 150, !.depth = 100]

\* gridResolution, the cell size in mm (RoutingContext, line 33)
RouteResolution == 50

RouteComponent(n, position, placed) ==
    [instanceId |-> InstanceId(n), physicalPosition |-> position,
     isPhysicallyPlaced |-> placed]

RouteComponentLists ==
    { <<>>,
      << RouteComponent(1, Pos3(-40, 0, -50), TRUE) >>,
      << RouteComponent(1, Pos3(-40, 0, -50), FALSE) >>,
      << RouteComponent(1, Pos3(10, 60, 0), TRUE) >>,
      << RouteComponent(1, Pos3(0, 0, 0), TRUE) >>,
      << RouteComponent(1, Pos3(-40, 0, -50), TRUE),
         RouteComponent(2, Pos3(10, 60, 0), TRUE) >> }

\* Pin positions: in the panel, and outside it on each side
RoutePoints ==
    { Pos3(-100, 0, -50), Pos3(-60, 10, -50), Pos3(90, 0, -50), Pos3(60, 120, 30),
      Pos3(100, 0, -50), Pos3(-110, 0, -50), Pos3(0, 150, 0), Pos3(0, -10, 0),
      Pos3(0, 0, 50) }

RouteContexts ==
    {[startPos |-> s, endPos |-> e, panel |-> RoutePanel, components |-> cs,
      gridResolution |-> RouteResolution] :
        s \in RoutePoints, e \in RoutePoints, cs \in RouteComponentLists}

\* routeWire's arguments with a resolution or a panel dimension that is not
\* positive
InvalidRouteContexts ==
    {[startPos |-> Pos3(-100, 0, -50), endPos |-> Pos3(90, 0, -50), panel |-> pnl,
      components |-> cs, gridResolution |-> r] :
        cs \in {<<>>, << RouteComponent(1, Pos3(-40, 0, -50), TRUE) >>},
        r \in {0, -RouteResolution},
        pnl \in {RoutePanel}}
    \cup
    {[startPos |-> Pos3(-100, 0, -50), endPos |-> Pos3(90, 0, -50), panel |-> pnl,
      components |-> cs, gridResolution |-> RouteResolution] :
        cs \in {<<>>, << RouteComponent(1, Pos3(-40, 0, -50), TRUE) >>},
        pnl \in {[RoutePanel EXCEPT !.width = 0], [RoutePanel EXCEPT !.height = -150],
                 [RoutePanel EXCEPT !.depth = 0]}}

\* The router before any call
RouterIdle ==
    /\ context = <<>>
    /\ grid = GridOf(0, 0, 0, {})
    /\ startCell = <<0, 0, 0>>
    /\ endCell = <<0, 0, 0>>
    /\ openSet = <<>>
    /\ closedSet = {}
    /\ pc = "idle"
    /\ path = <<>>
    /\ console = ""
    /\ iterations = 0
    /\ returned = <<>>

\* No placement helper called
UtilIdle ==
    /\ call = <<>>
    /\ result = <<>>

----------------------------------------------------------------------------
\* Placement helpers (AutoRouter.ts): checkCollision and snapToDinRail

\* Bound of the placement model
MaxOthers == 2       \* length of the list handed to checkCollision

\* checkCollision, lines 346-353: half the assumed 50 mm width (and depth),
\* and the assumed 100 mm height
HalfBoxWidth == 25
BoxHeight == 100

\* snapToDinRail, line 388: snapDistance
SnapDistance == 30

\* snapToDinRail, line 397: moduleWidth is 17.5; the model keeps it doubled
TwiceModuleWidth == 35

\* checkCollision, lines 344-355 and 360-371: new THREE.Box3(min, max)
BoxOf(position) ==
    [min |-> Pos3(position.x - HalfBoxWidth, position.y, position.z - HalfBoxWidth),
     max |-> Pos3(position.x + HalfBoxWidth, position.y + BoxHeight,
                  position.z + HalfBoxWidth)]

\* checkCollision, line 373: THREE.Box3.intersectsBox, false exactly when
\* the boxes are apart on some axis
IntersectsBox(a, b) ==
    ~(\/ b.max.x < a.min.x \/ b.min.x > a.max.x
      \/ b.max.y < a.min.y \/ b.min.y > a.max.y
      \/ b.max.z < a.min.z \/ b.min.z > a.max.z)

\* Mutant of CheckCollision: entries that are not placed are tested as well
CheckCollisionAnyOther(component, existingComponents) ==
    /\ component.isPhysicallyPlaced
    /\ \E i \in 1..Len(existingComponents) :
          /\ existingComponents[i].instanceId /= component.instanceId
          /\ IntersectsBox(BoxOf(component.physicalPosition),
                           BoxOf(existingComponents[i].physicalPosition))

\* checkCollision, lines 338-379
CheckCollision(component, existingComponents) ==
    IF ~component.isPhysicallyPlaced THEN FALSE
    ELSE LET box1 == BoxOf(component.physicalPosition)
         IN  \E i \in 1..Len(existingComponents) :
                LET other == existingComponents[i]
                IN  /\ ~(other.instanceId = component.instanceId
                         \/ ~other.isPhysicallyPlaced)
                    /\ IntersectsBox(box1, BoxOf(other.physicalPosition))

\* snapToDinRail, line 395: the position is close to the rail
CloseToRail(position, rail) ==
    /\ Abs(position.y - rail.position.y) < SnapDistance
    /\ Abs(position.z - rail.position.z) < SnapDistance

\* Twice the x of a position.  A position that snapToDinRail returned lies
\* on a multiple of half a millimetre and carries twice its x as x2
TwiceX(position) ==
    IF "x2" \in DOMAIN position THEN position.x2 ELSE 2 * position.x

\* snapToDinRail, line 398: Math.round((position.x - rail.position.x) /
\* moduleWidth); Math.round(v) is Math.floor(v + 0.5)
SlotOf(position, rail) ==
    Floor(2 * (TwiceX(position) - 2 * rail.position.x) + TwiceModuleWidth,
          2 * TwiceModuleWidth)

\* snapToDinRail, lines 400-408.  x2 is twice the x of the snapped position
\* (rail.position.x + slot * moduleWidth)
SnapOnto(position, rail) ==
    [position |-> [x2 |-> 2 * rail.position.x + SlotOf(position, rail) * TwiceModuleWidth,
                   y |-> rail.position.y,
                   z |-> rail.position.z],
     railId |-> rail.id,
     slot |-> SlotOf(position, rail)]

\* Mutant of SnapToDinRail: the closest of the rails that are close enough
SnapToClosestRail(position, pnl) ==
    LET rails == pnl.dinRails
        close == {i \in 1..Len(rails) : CloseToRail(position, rails[i])}
        far(i) == Abs(position.y - rails[i].position.y)
                      + Abs(position.z - rails[i].position.z)
    IN  IF close = {} THEN <<>>
        ELSE <<SnapOnto(position,
                        rails[CHOOSE i \in close :
                                \A j \in close : far(i) < far(j)
                                                     \/ (far(i) = far(j) /\ i <= j)])>>

\* snapToDinRail, lines 384-413: the first rail of the list that is close
\* enough, or null.  <<>> stands for null, <<r>> for the object r
SnapToDinRail(position, pnl) ==
    LET rails == pnl.dinRails
        close == {i \in 1..Len(rails) : CloseToRail(position, rails[i])}
    IN  IF close = {} THEN <<>>
        ELSE <<SnapOnto(position, rails[CHOOSE i \in close : \A j \in close : i <= j])>>

checkCollisionCall ==
    /\ call /= <<>>
    /\ call[1].op = "checkCollision"
    /\ result = <<>>
    /\ result' = <<CheckCollision(call[1].component, call[1].existingComponents)>>
    /\ UNCHANGED <<call, storeVars, routerVars>>

snapToDinRailCall ==
    /\ call /= <<>>
    /\ call[1].op = "snapToDinRail"
    /\ result = <<>>
    /\ result' = <<SnapToDinRail(call[1].position, call[1].panel)>>
    /\ UNCHANGED <<call, storeVars, routerVars>>

\* snapToDinRail called again with the position that the call before it
\* returned, on the same panel
snapToDinRailAgain ==
    /\ call /= <<>>
    /\ call[1].op = "snapToDinRail"
    /\ result /= <<>>
    /\ result[1] /= <<>>
    /\ call' = <<[op |-> "snapToDinRail again", position |-> result[1][1].position,
                  panel |-> call[1].panel, first |-> result[1][1]]>>
    /\ result' = <<SnapToDinRail(result[1][1].position, call[1].panel)>>
    /\ UNCHANGED <<storeVars, routerVars>>

----------------------------------------------------------------------------
\* Inputs of the placement model

\* Positions around a component at the origin: on it, touching its box on
\* each axis, one millimetre inside and outside of touching, and apart
CollisionPositions ==
    { Pos3(0, 0, 0), Pos3(50, 0, 0), Pos3(49, 0, 0), Pos3(51, 0, 0),
      Pos3(0, 100, 0), Pos3(0, -101, 0), Pos3(0, 0, -50), Pos3(30, 60, -30),
      Pos3(50, 100, 50), Pos3(120, 0, 0) }

CollisionOthers ==
    {RouteComponent(n, position, placed) :
        n \in {1, 2}, position \in CollisionPositions, placed \in BOOLEAN}

RECURSIVE ListsUpTo(_, _)
ListsUpTo(elements, n) ==
    IF n = 0 THEN {<<>>}
    ELSE LET shorter == ListsUpTo(elements, n - 1)
         IN  shorter \cup {Append(l, e) : l \in shorter, e \in elements}

CollisionCalls ==
    {[op |-> "checkCollision", component |-> RouteComponent(1, Pos3(0, 0, 0), placed),
      existingComponents |-> others] :
        placed \in BOOLEAN, others \in ListsUpTo(CollisionOthers, MaxOthers)}

\* A panel whose first two rails are 20 mm apart
ClosePanel ==
    [InitialPanel EXCEPT !.dinRails[2].position = Pos3(-350, 180, -50)]

\* A panel without rails
BarePanel == [InitialPanel EXCEPT !.dinRails = <<>>]

SnapCalls ==
    {[op |-> "snapToDinRail", position |-> Pos3(px, py, pz), panel |-> pnl] :
        px \in {-350, -341, -300, -360, 400},
        py \in {200, 175, 170, 171, 229, 230, 225, 150},
        pz \in {-50, -25, -20, -21, -80},
        pnl \in {InitialPanel, ClosePanel, BarePanel}}

----------------------------------------------------------------------------
\* optimizePath on its own (AutoRouter.ts:297-329)

\* Bound of the raw paths handed to optimizePath
MaxPathCells == 5    \* cells of a raw path

\* routeWire, line 61: optimizePath applied to the waypoints of a raw path
optimizePathCall ==
    /\ call /= <<>>
    /\ call[1].op = "optimizePath"
    /\ result = <<>>
    /\ result' = <<OptimizePath(call[1].waypoints)>>
    /\ UNCHANGED <<call, storeVars, routerVars>>

\* The raw paths aStar can return: the empty path, and the walks of unit
\* steps in which no two cells are neighbours unless they are consecutive.
\* Such a walk is the only route between its ends, hence the path aStar
\* returns, on the grid whose other cells are all blocked.
RECURSIVE RawPathsUpTo(_, _)
RawPathsUpTo(cells, n) ==
    IF n = 0 THEN {<<>>}
    ELSE LET shorter == RawPathsUpTo(cells, n - 1)
             longest == {w \in shorter : Len(w) = n - 1}
             fits(w, c) == IF w = <<>> THEN TRUE
                           ELSE /\ Heuristic(w[Len(w)], c) = 1
                                /\ \A i \in 1..(Len(w) - 1) : Heuristic(w[i], c) > 1
         IN  shorter \cup {Append(pr[1], pr[2]) :
                              pr \in {q \in longest \X cells : fits(q[1], q[2])}}

\* optimizePath's arguments: the waypoints of the raw paths in the grid of
\* RoutePanel at RouteResolution
OptimizeCalls ==
    {[op |-> "optimizePath",
      waypoints |-> PathToWaypoints(w, RouteResolution, RoutePanel)] :
        w \in RawPathsUpTo(CellsOf(Ceil(RoutePanel.width, RouteResolution),
                                   Ceil(RoutePanel.height, RouteResolution),
                                   Ceil(RoutePanel.depth, RouteResolution)),
                           MaxPathCells)}

----------------------------------------------------------------------------
\* Store calls as their caller observes them

\* The caller's record of a call that names an instance id; every one of the
\* four operations returns undefined (their type is void) and none throws
ObservedCall(op, instanceId) ==
    /\ call' = <<[op |-> op, instanceId |-> instanceId,
                  known |-> instanceId \in InstanceIdsOf(components),
                  before |-> [components |-> components,
                              logicalConnections |-> logicalConnections,
                              wires |-> wires]]>>
    /\ result' = <<"undefined">>

\* A call the caller keeps no record of
Unobserved ==
    /\ call' = <<>>
    /\ result' = <<>>

CallsNext ==
    \/ \E pp \in PinPairs : addConnectionCommit(pp[1], pp[2]) /\ Unobserved
    \/ addConnectionAddWire /\ Unobserved
    \/ /\ MayCall
       /\ \/ \E d \in Definitions, p \in SchematicPositions :
                  addComponent(d, p) /\ Unobserved
          \/ \E l \in Libraries : loadComponentLibrary(l) /\ Unobserved
          \/ \E project \in Projects : loadProject(project) /\ Unobserved
          \/ \E id \in InstanceIdArgs :
                  removeComponent(id) /\ ObservedCall("removeComponent", id)
          \/ \E id \in InstanceIdArgs, p \in SchematicPositions :
                  /\ updateComponentSchematicPosition(id, p)
                  /\ ObservedCall("updateComponentSchematicPosition", id)
          \/ \E id \in InstanceIdArgs, m \in MoveArgs :
                  /\ updateComponentPhysicalPosition(id, m[1], m[2])
                  /\ ObservedCall("updateComponentPhysicalPosition", id)
          \/ \E id \in InstanceIdArgs, b \in BOOLEAN :
                  /\ setComponentPhysicallyPlaced(id, b)
                  /\ ObservedCall("setComponentPhysicallyPlaced", id)

----------------------------------------------------------------------------
\* exportProject and loadProject as their caller observes them

\* The five lists of the store that a project carries
ProjectFields ==
    [panel |-> panel,
     componentLibrary |-> componentLibrary,
     components |-> components,
     logicalConnections |-> logicalConnections,
     wires |-> wires]

\* exportProject, lines 579-594: the store is read, not written; the caller
\* holds the returned project.  loaded is the project of the loadProject
\* call that came right before, if any
exportProjectCall ==
    /\ call' = <<[op |-> "exportProject",
                  loaded |-> IF call /= <<>> /\ call[1].op = "loadProject"
                             THEN <<call[1].project>> ELSE <<>>]>>
    /\ result' = <<ExportedProject>>
    /\ pending' = Noted(pending)
    /\ UNCHANGED <<componentLibrary, components, logicalConnections, wires, panel, unrouted>>
    /\ UNCHANGED routerVars

\* loadProject called with the given project; exported tells that it is the
\* project exportProject has just returned, before is the store as it was
ObservedLoad(project, exported) ==
    /\ loadProject(project)
    /\ call' = <<[op |-> "loadProject", project |-> project,
                  exported |-> exported,
                  before |-> ProjectFields]>>
    /\ result' = <<"undefined">>

\* loadProject(exportProject()): the project the caller has just been
\* handed is loaded
loadExportedProject ==
    /\ call /= <<>>
    /\ call[1].op = "exportProject"
    /\ ObservedLoad(result[1], TRUE)

RoundTripNext ==
    \/ \E pp \in PinPairs : addConnectionCommit(pp[1], pp[2]) /\ Unobserved
    \/ addConnectionAddWire /\ Unobserved
    \/ /\ MayCall
       /\ \/ \E d \in Definitions, p \in SchematicPositions :
                  addComponent(d, p) /\ Unobserved
          \/ \E id \in InstanceIdArgs, m \in MoveArgs :
                  updateComponentPhysicalPosition(id, m[1], m[2]) /\ Unobserved
          \/ \E id \in WireIdArgs, w \in WaypointLists :
                  updateWireWaypoints(id, w) /\ Unobserved
          \/ \E l \in Libraries : loadComponentLibrary(l) /\ Unobserved
          \/ exportProjectCall
          \/ loadExportedProject
          \/ \E project \in Projects : ObservedLoad(project, FALSE)

----------------------------------------------------------------------------
\* Specifications

\* The store under any sequence of its operations, one step per set()
Init == StoreInit /\ RouterIdle /\ UtilIdle

Spec == Init /\ [][Next]_vars

\* The store with the calls that name an instance id observed by their caller
SpecCalls == Init /\ [][CallsNext]_vars

\* The store with exportProject and loadProject observed by their caller
SpecRoundTrip == Init /\ [][RoundTripNext]_vars

\* aStar on any grid of the bounded size, from any cell to any cell
AStarInit ==
    /\ StoreInit
    /\ UtilIdle
    /\ context = <<>>
    /\ grid \in AStarGrids
    /\ startCell \in CellsOf(GridWidth, GridHeight, GridDepth)
    /\ endCell \in CellsOf(GridWidth, GridHeight, GridDepth)
    /\ openSet = <<>>
    /\ closedSet = {}
    /\ pc = "idle"
    /\ path = <<>>
    /\ console = ""
    /\ iterations = 0
    /\ returned = <<>>

AStarNext == aStarCall \/ aStarIterate

SpecAStar == AStarInit /\ [][AStarNext]_vars

\* aStar called twice on the same grid object, each time from any cell to
\* any cell
RerunInit ==
    /\ StoreInit
    /\ UtilIdle
    /\ context = <<>>
    /\ grid \in RerunGrids
    /\ startCell \in DOMAIN grid.node
    /\ endCell \in DOMAIN grid.node
    /\ openSet = <<>>
    /\ closedSet = {}
    /\ pc = "idle"
    /\ path = <<>>
    /\ console = ""
    /\ iterations = 0
    /\ returned = <<>>

RerunNext == aStarCall \/ aStarIterate \/ aStarAgain

SpecRerun == RerunInit /\ [][RerunNext]_vars

\* routeWire called MaxRouteCalls times in a row with the same arguments
RouteInit ==
    /\ StoreInit
    /\ UtilIdle
    /\ context \in {<<c>> : c \in RouteContexts}
    /\ grid = GridOf(0, 0, 0, {})
    /\ startCell = <<0, 0, 0>>
    /\ endCell = <<0, 0, 0>>
    /\ openSet = <<>>
    /\ closedSet = {}
    /\ pc = "idle"
    /\ path = <<>>
    /\ console = ""
    /\ iterations = 0
    /\ returned = <<>>

RouteNext == routeWireCall \/ aStarIterate \/ routeWireReturn

SpecRoute == RouteInit /\ [][RouteNext]_vars

\* checkCollision and snapToDinRail called once, with any of the arguments
PlacementInit ==
    /\ StoreInit
    /\ RouterIdle
    /\ call \in {<<c>> : c \in CollisionCalls \cup SnapCalls}
    /\ result = <<>>

PlacementNext == checkCollisionCall \/ snapToDinRailCall

SpecPlacement == PlacementInit /\ [][PlacementNext]_vars

\* optimizePath called once, with the waypoints of any raw path
OptimizeInit ==
    /\ StoreInit
    /\ RouterIdle
    /\ call \in {<<c>> : c \in OptimizeCalls}
    /\ result = <<>>

SpecOptimize == OptimizeInit /\ [][optimizePathCall]_vars

\* snapToDinRail called with any of the arguments, then with the position
\* it returned
SnapTwiceInit ==
    /\ StoreInit
    /\ RouterIdle
    /\ call \in {<<c>> : c \in SnapCalls}
    /\ result = <<>>

SnapTwiceNext == snapToDinRailCall \/ snapToDinRailAgain

SpecSnapTwice == SnapTwiceInit /\ [][SnapTwiceNext]_vars

\* routeWire called with any arguments, the invalid ones included
RouteAnyInit ==
    /\ StoreInit
    /\ UtilIdle
    /\ context \in {<<c>> : c \in RouteContexts \cup InvalidRouteContexts}
    /\ grid = GridOf(0, 0, 0, {})
    /\ startCell = <<0, 0, 0>>
    /\ endCell = <<0, 0, 0>>
    /\ openSet = <<>>
    /\ closedSet = {}
    /\ pc = "idle"
    /\ path = <<>>
    /\ console = ""
    /\ iterations = 0
    /\ returned = <<>>

SpecRouteAny == RouteAnyInit /\ [][RouteNext]_vars

----------------------------------------------------------------------------
\* Properties of the store

\* The pin ids of the instances in a list
PinIdsOf(comps) ==
    UNION { {comps[i].physicalPins[k].logicalPinId : k \in 1..Len(comps[i].physicalPins)} :
            i \in 1..Len(comps) }

Origin == Pos3(0, 0, 0)

\* C1: in every reachable state, both pins of every logical connection are
\* pins of a component instance that is present in the store.
C1_ConnectionsResolve ==
    \A i \in 1..Len(logicalConnections) :
        /\ logicalConnections[i].fromPinId \in PinIdsOf(components)
        /\ logicalConnections[i].toPinId \in PinIdsOf(components)

\* C2: removeComponent(id) on an instance of the store removes every
\* connection that references a pin of that instance, and the wires of those
\* connections, keeps the connections and wires that reference none of its
\* pins, and leaves no connection or wire that refers to the removed
\* instance.  (A pin id that a remaining instance also carries is not counted
\* as referring to the removed instance.)
C2_RemoveCascades ==
    [][ \A id \in InstanceIdsOf(components) :
          removeComponent(id) =>
            LET removed == Filter(components, LAMBDA c : c.instanceId = id)
                gonePins == PinIdsOf(removed) \ PinIdsOf(components')
                touched(conn) == conn.fromPinId \in PinIdsOf(removed)
                                 \/ conn.toPinId \in PinIdsOf(removed)
            IN  /\ \A i \in 1..Len(logicalConnections') :
                      /\ logicalConnections'[i].fromPinId \notin gonePins
                      /\ logicalConnections'[i].toPinId \notin gonePins
                /\ \A i \in 1..Len(wires') :
                      wires'[i].logicalConnectionId \in ConnectionIdsOf(logicalConnections')
                /\ \A i \in 1..Len(logicalConnections) :
                      ~touched(logicalConnections[i])
                          => logicalConnections[i] \in Range(logicalConnections')
       ]_vars

\* C3: in every reachable state, every physical pin's world coordinate
\* (connectionPoint) is the instance's physicalPosition plus the pin's
\* offset (position).
C3_PinsFollowPosition ==
    \A i \in 1..Len(components) :
        \A k \in 1..Len(components[i].physicalPins) :
            LET pin == components[i].physicalPins[k]
                at == components[i].physicalPosition
            IN  pin.connectionPoint = Pos3(at.x + pin.position.x,
                                           at.y + pin.position.y,
                                           at.z + pin.position.z)

\* C9: addConnection leaves exactly one wire for the new connection, with
\* zero waypoints: its first set() adds one connection, which is the one the
\* call goes on with, and when the call returns (its addWire has run, and no
\* subscriber has called the store since the first set(), as in every call
\* the program makes) the store holds exactly one wire for that connection,
\* unwritten and empty.
\* And a wire that addWire created keeps zero waypoints in every step until
\* updateWireWaypoints writes it: the only step that takes a wire of the
\* store out of the unwritten ones is updateWireWaypoints on it, and every
\* unwritten wire has no waypoints.
C9_UnroutedUntilWritten ==
    [][ /\ \A pp \in PinPairs :
              addConnectionCommit(pp[1], pp[2]) =>
                LET added == Filter(logicalConnections',
                                    LAMBDA c : c \notin Range(logicalConnections))
                IN  /\ Len(added) = 1
                    /\ pending'[Len(pending')] = [connectionId |-> added[1].id, calls |-> 0]
        /\ (addConnectionAddWire /\ pending[Len(pending)].calls = 0) =>
                LET connectionId == pending[Len(pending)].connectionId
                    its == Filter(wires', LAMBDA w : w.logicalConnectionId = connectionId)
                IN  /\ connectionId \in ConnectionIdsOf(logicalConnections')
                    /\ Len(its) = 1
                    /\ its[1].waypoints = <<>>
                    /\ its[1].id \in unrouted'
        /\ \A i \in 1..Len(wires') :
              wires'[i].id \in unrouted' => wires'[i].waypoints = <<>>
        /\ \A id \in unrouted :
              (id \in WireIdsOf(wires') /\ id \notin unrouted')
                  => \E w \in WaypointLists : updateWireWaypoints(id, w)
      ]_vars

\* C9 witness: a connection made by addConnection whose only wire is still
\* unwritten and empty, in a store where other operations have run since
\* (an instance has been added, moved and placed)
C9_Witness ==
    /\ \E i \in 1..Len(logicalConnections) :
          LET its == Filter(wires, LAMBDA w :
                               w.logicalConnectionId = logicalConnections[i].id)
          IN  /\ logicalConnections[i].id /= ConnectionId(0)
              /\ Len(its) = 1
              /\ its[1].id \in unrouted
              /\ its[1].waypoints = <<>>
    /\ \E i \in 1..Len(components) :
          components[i].physicalPosition /= Origin /\ components[i].isPhysicallyPlaced

\* C10: updateComponentPhysicalPosition(id, position, slot) changes nothing
\* but the addressed instance's physicalPosition, dinRailSlot and the
\* connectionPoint of its pins: wires, connections, library, panel, the
\* other instances and the instance's other fields (isPhysicallyPlaced
\* included) are unchanged.
C10_MoveFrame ==
    [][ \A id \in InstanceIdArgs, m \in MoveArgs :
          updateComponentPhysicalPosition(id, m[1], m[2]) =>
            /\ wires' = wires
            /\ logicalConnections' = logicalConnections
            /\ componentLibrary' = componentLibrary
            /\ panel' = panel
            /\ Len(components') = Len(components)
            /\ \A i \in 1..Len(components) :
                  LET old == components[i]
                      new == components'[i]
                  IN  IF old.instanceId /= id THEN new = old
                      ELSE /\ new.instanceId = old.instanceId
                           /\ new.definitionId = old.definitionId
                           /\ new.label = old.label
                           /\ new.schematicPosition = old.schematicPosition
                           /\ new.isPhysicallyPlaced = old.isPhysicallyPlaced
                           /\ Len(new.physicalPins) = Len(old.physicalPins)
                           /\ \A k \in 1..Len(old.physicalPins) :
                                 /\ new.physicalPins[k].logicalPinId
                                        = old.physicalPins[k].logicalPinId
                                 /\ new.physicalPins[k].position = old.physicalPins[k].position
      ]_vars

\* C10 witness: an instance that has been moved (and given a rail slot)
\* while still unplaced, next to another instance that has not been moved,
\* in a store that holds a routed wire
C10_Witness ==
    /\ \E i, j \in 1..Len(components) :
          /\ i /= j
          /\ components[i].physicalPosition /= Origin
          /\ components[i].dinRailSlot = <<2>>
          /\ ~components[i].isPhysicallyPlaced
          /\ components[j].physicalPosition = Origin
    /\ \E i \in 1..Len(wires) :
          Len(wires[i].waypoints) >= 2 /\ wires[i].length /= <<>>

----------------------------------------------------------------------------
\* Properties of the router

ObstaclesOf(g) == {c \in DOMAIN g.node : g.node[c].isObstacle}

FreeCellsOf(g) == {c \in DOMAIN g.node : ~g.node[c].isObstacle}

\* Reference breadth-first search over the free cells: the number of steps
\* of a shortest 6-connected route from the frontier to goal, -1 if none
RECURSIVE BfsSteps(_, _, _, _, _)
BfsSteps(free, frontier, seen, goal, d) ==
    IF goal \in frontier THEN d
    ELSE LET next == {c \in free \ seen : \E b \in frontier : Heuristic(b, c) = 1}
         IN  IF next = {} THEN -1
             ELSE BfsSteps(free, next, seen \cup next, goal, d + 1)

\* Steps of a shortest route from a to b through unblocked cells, a and b
\* included; -1 if there is none
ShortestSteps(g, a, b) ==
    IF a \notin FreeCellsOf(g) \/ b \notin FreeCellsOf(g) THEN -1
    ELSE BfsSteps(FreeCellsOf(g), {a}, {a}, b, 0)

\* The cells of the box spanned by a and b
BoxBetween(a, b) ==
    (Min(a[1], b[1])..Max(a[1], b[1])) \X (Min(a[2], b[2])..Max(a[2], b[2]))
        \X (Min(a[3], b[3])..Max(a[3], b[3]))

\* C4: no cell of a path aStar returns, start and goal included, is an
\* obstacle of the grid the path was computed on.
C4_PathAvoidsObstacles ==
    pc = "done" => \A i \in 1..Len(path) : path[i] \notin ObstaclesOf(grid)

\* C5: a path returned between free start and goal cells has as many steps
\* as a shortest 6-connected route through unblocked cells; when no obstacle
\* lies in the box spanned by start and goal, that is their Manhattan
\* distance.
C5_PathIsShortest ==
    (/\ pc = "done"
     /\ path /= <<>>
     /\ startCell \in FreeCellsOf(grid)
     /\ endCell \in FreeCellsOf(grid))
        => /\ Len(path) - 1 = ShortestSteps(grid, startCell, endCell)
           /\ (BoxBetween(startCell, endCell) \cap ObstaclesOf(grid) = {})
                  => Len(path) - 1 = Heuristic(startCell, endCell)

\* C5 witness: a returned path between free cells that is longer than the
\* Manhattan distance, because obstacles lie in between
C5_Witness ==
    /\ pc = "done"
    /\ startCell \in FreeCellsOf(grid)
    /\ endCell \in FreeCellsOf(grid)
    /\ Len(path) - 1 > Heuristic(startCell, endCell)
    /\ Len(path) - 1 = ShortestSteps(grid, startCell, endCell)

\* C6: for in-bounds start and goal, aStar returns the empty result exactly
\* when no 6-connected sequence of unblocked cells joins start to goal.
C6_EmptyIffDisconnected ==
    (pc = "done" /\ startCell \in DOMAIN grid.node /\ endCell \in DOMAIN grid.node)
        => ((path = <<>>) <=> (ShortestSteps(grid, startCell, endCell) = -1))

\* A position that worldToGrid maps outside the grid of its panel
OutsideGrid(pos, resolution, pnl) ==
    \/ pos.x + Half(pnl.width) < 0
    \/ pos.x + Half(pnl.width) >= Ceil(pnl.width, resolution) * resolution
    \/ pos.y < 0
    \/ pos.y >= Ceil(pnl.height, resolution) * resolution
    \/ pos.z + Half(pnl.depth) < 0
    \/ pos.z + Half(pnl.depth) >= Ceil(pnl.depth, resolution) * resolution

CallOutOfBounds ==
    /\ context /= <<>>
    /\ \/ OutsideGrid(context[1].startPos, context[1].gridResolution, context[1].panel)
       \/ OutsideGrid(context[1].endPos, context[1].gridResolution, context[1].panel)

\* What routeWire returns when the search finds no path (aStar returns [])
NoPathResult ==
    OptimizePath(PathToWaypoints(<<>>, context[1].gridResolution, context[1].panel))

\* C7: for a start or end outside the grid, routeWire returns an outcome that
\* can be told from the no-path outcome.
C7_OutOfBoundsDistinct ==
    CallOutOfBounds => \A k \in 1..Len(returned) : returned[k] /= NoPathResult

\* C8: consecutive calls of routeWire with the same arguments return the
\* same waypoint list.
C8_SameResultTwice ==
    \A i, j \in 1..Len(returned) : returned[i] = returned[j]

\* C8 witness: two calls have returned, with a path that turns around a
\* placed component
C8_Witness ==
    /\ Len(returned) >= 2
    /\ Len(returned[2]) >= 3
    /\ ObstaclesOf(grid) /= {}

----------------------------------------------------------------------------
\* Properties of the store: rejected calls, wires and snapshots

\* addConnection called with a pin that no instance of the store carries
UnresolvedPair(pp) ==
    pp[1] \notin PinIdsOf(components) \/ pp[2] \notin PinIdsOf(components)

\* C11: addConnection with a pin id that resolves to no pin of an instance
\* of the store creates no connection and no wire: its first set() leaves
\* the connections as they were, and no call goes on to addWire for a
\* connection with such a pin.
C11_UnknownPinRejected ==
    [][ /\ \A pp \in PinPairs :
              (UnresolvedPair(pp) /\ addConnectionCommit(pp[1], pp[2]))
                  => /\ logicalConnections' = logicalConnections
                     /\ wires' = wires
        /\ addConnectionAddWire =>
              \A i \in 1..Len(logicalConnections) :
                  logicalConnections[i].id = pending[Len(pending)].connectionId
                      => ~UnresolvedPair(<<logicalConnections[i].fromPinId,
                                          logicalConnections[i].toPinId>>)
      ]_vars

\* C12: a call of removeComponent, updateComponentSchematicPosition,
\* updateComponentPhysicalPosition or setComponentPhysicallyPlaced that names
\* an instance id not in the store is rejected (the caller is told
\* UnknownComponent) and leaves components, connections and wires as they
\* were.
C12_UnknownInstanceRejected ==
    (call /= <<>> /\ ~call[1].known)
        => /\ result = <<"UnknownComponent">>
           /\ components = call[1].before.components
           /\ logicalConnections = call[1].before.logicalConnections
           /\ wires = call[1].before.wires

WiresOf(connectionId) == Filter(wires, LAMBDA w : w.logicalConnectionId = connectionId)

\* C14: in every reachable state each logical connection has exactly one
\* wire, and each wire's logicalConnectionId names a connection of the store.
C14_WiresOneToOne ==
    /\ \A i \in 1..Len(logicalConnections) : Len(WiresOf(logicalConnections[i].id)) = 1
    /\ \A i \in 1..Len(wires) :
          wires[i].logicalConnectionId \in ConnectionIdsOf(logicalConnections)

\* C15: after loadProject(snapshot) the component library, components,
\* connections, wires and panel are the snapshot's, whatever the store held
\* before.
C15_LoadReplacesAll ==
    [][ \A project \in Projects :
          loadProject(project)
              => /\ componentLibrary' = project.componentLibrary
                 /\ components' = project.components
                 /\ logicalConnections' = project.logicalConnections
                 /\ wires' = project.wires
                 /\ panel' = project.panel
      ]_vars

\* C15 witness: the store holds exactly the snapshot, none of whose wires is
\* an unwritten one
C15_Witness ==
    /\ ExportedProject = SavedProject
    /\ unrouted = {}

\* C13: no state a subscriber of the store can observe holds a logical
\* connection without a wire: addConnection shows the connection and its
\* wire together, and removeComponent, removeConnection and loadProject show
\* connections and wires changed together.
C13_NoIntermediateState ==
    \A i \in 1..Len(logicalConnections) : WiresOf(logicalConnections[i].id) /= <<>>

----------------------------------------------------------------------------
\* Properties of grid construction

\* routeWire has built its grid
GridBuilt == context /= <<>> /\ pc \in {"search", "done"}

\* The components of the call that are physically placed
PlacedOf(comps) == {i \in 1..Len(comps) : comps[i].isPhysicallyPlaced}

\* C16: in the grid createGrid builds, the cell that contains the position
\* of a placed component is blocked, as every cell its box covers; and cells
\* are blocked only where a placed component is: components that are not
\* placed block no cell.
C16_PlacedComponentsBlock ==
    GridBuilt =>
        LET c == context[1]
        IN  /\ \A i \in PlacedOf(c.components) :
                  LET own == WorldToGrid(c.components[i].physicalPosition,
                                         c.gridResolution, c.panel)
                  IN  own \in DOMAIN grid.node => grid.node[own].isObstacle
            /\ PlacedOf(c.components) = {} => ObstaclesOf(grid) = {}

\* routeWire's resolution or one of its panel's dimensions is not positive
InvalidGridParameters ==
    /\ context /= <<>>
    /\ \/ context[1].gridResolution <= 0
       \/ context[1].panel.width <= 0
       \/ context[1].panel.height <= 0
       \/ context[1].panel.depth <= 0

\* C17: with a resolution or a panel dimension that is not positive, grid
\* construction fails with InvalidGridParameters, the search is not run, and
\* the call of routeWire terminates.
C17_InvalidParametersFail ==
    InvalidGridParameters
        => /\ pc /= "diverged"
           /\ pc /= "search"
           /\ iterations = 0
           /\ pc = "done" => console = "error: InvalidGridParameters"

----------------------------------------------------------------------------
\* Properties of the placement helpers

CollisionReturned == call /= <<>> /\ call[1].op = "checkCollision" /\ result /= <<>>

SnapReturned == call /= <<>> /\ call[1].op = "snapToDinRail" /\ result /= <<>>

\* Two boxes with whole coordinates have a point in common: on every axis
\* their extents, ends included, share a coordinate
SharePoint(a, b) ==
    /\ (a.min.x..a.max.x) \cap (b.min.x..b.max.x) /= {}
    /\ (a.min.y..a.max.y) \cap (b.min.y..b.max.y) /= {}
    /\ (a.min.z..a.max.z) \cap (b.min.z..b.max.z) /= {}

\* Two boxes have an interior point in common: on every axis their extents
\* overlap over a stretch of positive length (twice the coordinates, so that
\* midpoints count)
ShareInterior(a, b) ==
    /\ ((2 * a.min.x + 1)..(2 * a.max.x - 1)) \cap ((2 * b.min.x + 1)..(2 * b.max.x - 1)) /= {}
    /\ ((2 * a.min.y + 1)..(2 * a.max.y - 1)) \cap ((2 * b.min.y + 1)..(2 * b.max.y - 1)) /= {}
    /\ ((2 * a.min.z + 1)..(2 * a.max.z - 1)) \cap ((2 * b.min.z + 1)..(2 * b.max.z - 1)) /= {}

\* The entries of the list that are placed and are not the candidate itself
RivalsOf(component, existingComponents) ==
    {i \in 1..Len(existingComponents) :
        /\ existingComponents[i].isPhysicallyPlaced
        /\ existingComponents[i].instanceId /= component.instanceId}

\* C18: checkCollision(candidate, others) is true exactly when the candidate
\* is placed and the box of some placed entry of others with another
\* instanceId has a point in common with the candidate's box; an unplaced
\* candidate never collides, and unplaced or same-id entries cause no
\* collision.  (Boxes that have only boundary points in common are the
\* subject of C19.)
C18_CollisionExactly ==
    CollisionReturned =>
        LET candidate == call[1].component
            others == call[1].existingComponents
        IN  result[1] =
              (/\ candidate.isPhysicallyPlaced
               /\ \E i \in RivalsOf(candidate, others) :
                     SharePoint(BoxOf(candidate.physicalPosition),
                                BoxOf(others[i].physicalPosition)))

\* C18 witness: a collision reported for a placed candidate against the
\* second entry of a list whose first entry overlaps the candidate but is
\* not placed
C18_Witness ==
    /\ CollisionReturned
    /\ result[1] = TRUE
    /\ Len(call[1].existingComponents) = 2
    /\ ~call[1].existingComponents[1].isPhysicallyPlaced
    /\ call[1].existingComponents[1].physicalPosition = Pos3(0, 0, 0)
    /\ call[1].existingComponents[1].instanceId /= call[1].component.instanceId

\* C19: placed components whose boxes share boundary points only, with no
\* interior point in common, do not collide.
C19_TouchingIsNoCollision ==
    CollisionReturned =>
        LET candidate == call[1].component
            others == call[1].existingComponents
        IN  (\A i \in RivalsOf(candidate, others) :
                ~ShareInterior(BoxOf(candidate.physicalPosition),
                               BoxOf(others[i].physicalPosition)))
                => result[1] = FALSE

\* The result C20 describes, for a given test of a rail being within
\* tolerance: null when no rail passes the test, else the snap onto the
\* first rail of the list that passes, at x = rail.x + slot * moduleWidth
\* with slot an integer nearest to (position.x - rail.x) / moduleWidth
SnapIsFirstOf(Within(_, _)) ==
    LET position == call[1].position
        rails == call[1].panel.dinRails
        passing == {i \in 1..Len(rails) : Within(position, rails[i])}
    IN  IF passing = {} THEN result[1] = <<>>
        ELSE /\ result[1] /= <<>>
             /\ \E k \in passing :
                   LET snap == result[1][1]
                   IN  /\ \A j \in passing : k <= j
                       /\ snap.railId = rails[k].id
                       /\ snap.position.y = rails[k].position.y
                       /\ snap.position.z = rails[k].position.z
                       /\ snap.position.x2
                              = 2 * rails[k].position.x + snap.slot * TwiceModuleWidth
                       /\ Abs(4 * (position.x - rails[k].position.x)
                                  - 2 * TwiceModuleWidth * snap.slot) <= TwiceModuleWidth

\* The distance of the position from the rail's line is at most the tolerance
WithinDistance(position, rail) ==
    (position.y - rail.position.y) * (position.y - rail.position.y)
        + (position.z - rail.position.z) * (position.z - rail.position.z)
            <= SnapDistance * SnapDistance

\* Each of the y and z offsets from the rail is less than the tolerance
WithinOnEachAxis(position, rail) ==
    /\ Abs(position.y - rail.position.y) < SnapDistance
    /\ Abs(position.z - rail.position.z) < SnapDistance

\* C20 as stated: snapToDinRail returns the snap onto the first rail of the
\* list whose distance from the position is within the tolerance, null
\* exactly when no rail qualifies, and the snapped position lies on that
\* rail at x = rail.x + slot * moduleWidth, slot the nearest integer.
C20_SnapWithinDistance == SnapReturned => SnapIsFirstOf(WithinDistance)

\* C20 as amended: the same, with a rail qualifying exactly when the y
\* offset and the z offset of the position from the rail are each less than
\* the tolerance (30 mm).
C20_SnapOnEachAxis == SnapReturned => SnapIsFirstOf(WithinOnEachAxis)

\* C20 witness: a snap onto the first rail, at a slot other than 0, of a
\* position that is closer to the second rail
C20_Witness ==
    /\ SnapReturned
    /\ result[1] /= <<>>
    /\ result[1][1].railId = "dinrail-1"
    /\ result[1][1].slot /= 0
    /\ Len(call[1].panel.dinRails) >= 2
    /\ Abs(call[1].position.y - call[1].panel.dinRails[2].position.y)
           < Abs(call[1].position.y - call[1].panel.dinRails[1].position.y)
    /\ call[1].position.z = call[1].panel.dinRails[2].position.z

----------------------------------------------------------------------------
\* Properties of the router: the shape of the returned paths

\* The coordinates in which two positions differ
DifferingAxes(p, q) ==
    {a \in {"x", "y", "z"} : p[a] /= q[a]}

\* The waypoint pathToWaypoints makes of one cell
WaypointOf(cell) == PathToWaypoints(<<cell>>, context[1].gridResolution, context[1].panel)[1]

\* C21: a raw path that aStar hands to routeWire starts at the start cell,
\* ends at the goal cell, and consecutive cells differ by exactly 1 in
\* exactly one of x, y, z; every waypoint list routeWire returns starts at
\* the start cell's waypoint, ends at the goal cell's, and consecutive
\* waypoints differ in exactly one coordinate.
C21_AxisAlignedSegments ==
    /\ (pc = "done" /\ path /= <<>>)
          => /\ path[1] = startCell
             /\ path[Len(path)] = endCell
             /\ \A i \in 1..(Len(path) - 1) : Heuristic(path[i], path[i + 1]) = 1
    /\ \A k \in 1..Len(returned) :
          returned[k] /= <<>>
              => /\ returned[k][1] = WaypointOf(startCell)
                 /\ returned[k][Len(returned[k])] = WaypointOf(endCell)
                 /\ \A i \in 1..(Len(returned[k]) - 1) :
                       Cardinality(DifferingAxes(returned[k][i].position,
                                                 returned[k][i + 1].position)) = 1

\* C21 witness: routeWire has returned a path with two turns, reduced from a
\* raw path of at least four cells
C21_Witness ==
    /\ pc = "idle"
    /\ Len(returned) >= 1
    /\ Len(returned[1]) >= 4
    /\ Len(path) > Len(returned[1])

OptimizeReturned == call /= <<>> /\ call[1].op = "optimizePath" /\ result /= <<>>

\* The direction vector from the i-th waypoint to the next
DirectionAt(waypoints, i) ==
    Pos3(waypoints[i + 1].position.x - waypoints[i].position.x,
         waypoints[i + 1].position.y - waypoints[i].position.y,
         waypoints[i + 1].position.z - waypoints[i].position.z)

\* The indices of the first point, the last point and the interior points
\* at which the incoming and the outgoing direction differ
KeptIndices(waypoints) ==
    {i \in 1..Len(waypoints) :
        \/ i = 1
        \/ i = Len(waypoints)
        \/ DirectionAt(waypoints, i - 1) /= DirectionAt(waypoints, i)}

\* The values from a to b in steps of the cell size
StepsBetween(a, b) ==
    {Min(a, b) + k * RouteResolution : k \in 0..(Abs(a - b) \div RouteResolution)}

\* The cell corners a polyline passes through: those of the boxes spanned
\* by its segments (a segment along one axis spans a line of corners)
CornersOn(waypoints) ==
    IF Len(waypoints) = 1 THEN {waypoints[1].position}
    ELSE UNION {LET p == waypoints[i].position
                    q == waypoints[i + 1].position
                IN  {Pos3(x, y, z) : x \in StepsBetween(p.x, q.x),
                                     y \in StepsBetween(p.y, q.y),
                                     z \in StepsBetween(p.z, q.z)} :
                i \in 1..(Len(waypoints) - 1)}

\* Waypoints that lie on one line along an axis
StraightRun(waypoints) ==
    /\ Len(waypoints) >= 2
    /\ \E axis \in {"x", "y", "z"} :
          \A i \in 1..Len(waypoints) :
              DifferingAxes(waypoints[1].position, waypoints[i].position) \subseteq {axis}

\* C22: optimizePath returns exactly the first point, the last point and, in
\* order, the interior points at which the incoming and the outgoing
\* direction differ; the reduced polyline passes through the same cells and
\* has the same total length as its input; a straight run reduces to 2
\* waypoints.
C22_ReductionKeepsGeometry ==
    OptimizeReturned =>
        LET waypoints == call[1].waypoints
            optimized == result[1]
            kept == KeptIndices(waypoints)
        IN  /\ Len(optimized) = Cardinality(kept)
            /\ \A k \in 1..Len(optimized) :
                  \E i \in kept : /\ Cardinality({j \in kept : j <= i}) = k
                                  /\ optimized[k] = waypoints[i]
            /\ CornersOn(optimized) = CornersOn(waypoints)
            /\ PolylineLength(optimized, 2) = PolylineLength(waypoints, 2)
            /\ StraightRun(waypoints) => Len(optimized) = 2

\* C22 witness: a raw path with a straight run of three steps followed by a
\* turn has been reduced to three waypoints
C22_Witness ==
    /\ OptimizeReturned
    /\ Len(call[1].waypoints) = 5
    /\ Len(result[1]) = 3
    /\ DirectionAt(call[1].waypoints, 1) = DirectionAt(call[1].waypoints, 3)

----------------------------------------------------------------------------
\* Properties of the store: snapshots, moves and wire lengths

\* C23: loadProject(exportProject()) leaves the panel, the component
\* library, the instances, the logical connections and the wires as they
\* were; and exportProject() right after loadProject(p) returns p's panel,
\* library, instances, connections and wires.
C23_ExportLoadRoundTrip ==
    /\ (call /= <<>> /\ call[1].op = "loadProject" /\ call[1].exported)
          => ProjectFields = call[1].before
    /\ (call /= <<>> /\ call[1].op = "exportProject" /\ call[1].loaded /= <<>>)
          => LET p == call[1].loaded[1]
                 exported == result[1]
             IN  /\ exported.panel = p.panel
                 /\ exported.componentLibrary = p.componentLibrary
                 /\ exported.components = p.components
                 /\ exported.logicalConnections = p.logicalConnections
                 /\ exported.wires = p.wires

\* C23 witness: a store that holds an instance, a connection and a routed
\* wire made by its own operations has been exported and loaded back
C23_Witness ==
    /\ call /= <<>>
    /\ call[1].op = "loadProject"
    /\ call[1].exported
    /\ call[1].project /= SavedProject
    /\ components /= <<>>
    /\ \E i \in 1..Len(wires) : Len(wires[i].waypoints) >= 2

\* C24: right after updateComponentPhysicalPosition(id, p) on an instance of
\* the store, every physical pin of that instance has connectionPoint
\* p + pin.position, whatever the store held before the call.
C24_MoveRecomputesPins ==
    [][ \A id \in InstanceIdsOf(components), m \in MoveArgs :
          updateComponentPhysicalPosition(id, m[1], m[2]) =>
            \A i \in 1..Len(components') :
                components'[i].instanceId = id =>
                    \A k \in 1..Len(components'[i].physicalPins) :
                        LET pin == components'[i].physicalPins[k]
                        IN  pin.connectionPoint = Pos3(m[1].x + pin.position.x,
                                                       m[1].y + pin.position.y,
                                                       m[1].z + pin.position.z)
      ]_vars

\* C28: in every reachable state, a wire with zero or one waypoint carries
\* no computed length (its length is undefined): updateWireWaypoints with
\* fewer than two waypoints does not set it.
C28_ShortWiresHaveNoLength ==
    \A i \in 1..Len(wires) :
        Len(wires[i].waypoints) <= 1 => wires[i].length = <<>>

----------------------------------------------------------------------------
\* Properties of the search: tie-breaking, re-runs, termination, direction

\* The positions in the open set of the nodes with the lowest f.  push
\* appends and splice keeps the order, so a higher position means a later
\* insertion
LowestPositions ==
    {i \in 1..Len(openSet) :
        \A j \in 1..Len(openSet) : grid.node[openSet[i]].f <= grid.node[openSet[j]].f}

\* A step of the main loop that expands a node (moves it from the open to
\* the closed set)
ExpansionStep == pc = "search" /\ closedSet' /= closedSet

\* C25 as stated: among the open nodes that share the lowest f, the search
\* expands the one inserted most recently.
C25_ExpandsLatestInserted ==
    [][ ExpansionStep =>
          closedSet' \ closedSet
              = {openSet[CHOOSE i \in LowestPositions : \A j \in LowestPositions : j <= i]}
      ]_vars

\* C25 as amended: among the open nodes that share the lowest f, the search
\* expands the one inserted first (the scan of lines 155-160 replaces its
\* candidate only for a strictly lower f).
C25_ExpandsFirstInserted ==
    [][ ExpansionStep =>
          closedSet' \ closedSet
              = {openSet[CHOOSE i \in LowestPositions : \A j \in LowestPositions : i <= j]}
      ]_vars

\* C25 witness: the second expansion has chosen between two neighbours of
\* the start cell with the same f; the other one is still in the open set
C25_Witness ==
    /\ pc = "search"
    /\ iterations = 2
    /\ \E c \in closedSet \ {startCell} :
          \E k \in 1..Len(openSet) :
              /\ grid.node[openSet[k]].parent = startCell
              /\ grid.node[openSet[k]].f = grid.node[c].f

\* The grid as createGrid built it: the same obstacles, every node fresh
Refreshed(g) == GridOf(g.width, g.height, g.depth, ObstaclesOf(g))

\* The search at hand is one on a grid that an earlier search has used
SearchedAgain == call /= <<>> /\ call[1].op = "aStar"

\* C26: a search on a grid that an earlier search has used returns, and it
\* returns the path that the same search returns on a freshly built grid.
C26_RerunOnUsedGrid ==
    (SearchedAgain /\ pc /= "search")
        => /\ pc = "done"
           /\ path = AStarPath(Refreshed(grid), startCell, endCell)

\* C27: on every grid createGrid can build and for every start and goal,
\* aStar returns within width x height x depth iterations of its main loop:
\* every iteration either returns (a path, or the no-path result once the
\* open set is empty) or closes one more cell; a cell leaves the open set
\* only by being closed, and a closed cell stays closed and is never in the
\* open set again.
C27_SearchTerminates ==
    /\ [](/\ iterations <= grid.width * grid.height * grid.depth
          /\ pc /= "diverged")
    /\ [](pc = "search"
            => /\ closedSet \cap Range(openSet) = {}
               /\ Cardinality(Range(openSet)) = Len(openSet)
               /\ Cardinality(closedSet) = iterations)
    /\ [][ pc = "search"
             => /\ closedSet \subseteq closedSet'
                /\ Range(openSet) \ Range(openSet') \subseteq closedSet' \ closedSet
                /\ \/ pc' = "done"
                   \/ /\ pc' = "search"
                      /\ iterations' = iterations + 1
                      /\ Cardinality(closedSet') = Cardinality(closedSet) + 1
         ]_vars

\* C27 witness: a search has returned the no-path result after closing every
\* cell it could reach, five at least
C27_Witness ==
    /\ pc = "done"
    /\ path = <<>>
    /\ iterations >= 5
    /\ Cardinality(closedSet) = iterations

\* C29: for every grid and every pair of in-bounds cells a and b, blocked or
\* not, aStar finds a route from a to b exactly when it finds one from b to
\* a, and the two routes have the same number of steps.
C29_DirectionDoesNotMatter ==
    pc = "done"
        => LET forth == path
               back == AStarPath(Refreshed(grid), endCell, startCell)
           IN  /\ (forth = <<>>) <=> (back = <<>>)
               /\ Len(forth) = Len(back)

----------------------------------------------------------------------------
\* Properties of the placement helpers: snapping twice

\* C30: if snapToDinRail(p, panel) returns a position q, a rail and a slot,
\* then snapToDinRail(q, panel) returns the same position, the same rail
\* and the same slot.
C30_SnapIsIdempotent ==
    (call /= <<>> /\ call[1].op = "snapToDinRail again")
        => result = << <<call[1].first>> >>

====
